---- MODULE Spec2Model ----
(***************************************************************************)
(* State-machine model of the hiker-web client: the App component (point   *)
(* store, route fetch) and the MapComponent (map lifecycle, click          *)
(* forwarding, route / marker / radar reconciliation).                     *)
(*                                                                         *)
(* React scheduling: an event handler's state updates are batched, the     *)
(* component re-renders once, and the effects whose dependencies changed   *)
(* run in source order before the next event is handled.  One action is    *)
(* therefore one handler together with the commit it causes.  The          *)
(* suspension points are the network requests, the map's load event, the   *)
(* radar timer and the user.                                               *)
(***************************************************************************)
EXTENDS Integers, Sequences, FiniteSets, TLC

\* ------------------------------------------------------------ bounds
MaxFetches == 2        \* route requests issued in one run
MaxCoords == 2         \* longest geometry.coordinates of a response
MaxTimestamp == 2      \* radar frame times are 1..MaxTimestamp
MaxRadarFetches == 2   \* radar metadata requests issued in one run
MaxMinutes == 90       \* durations formatted: whole minutes 0..MaxMinutes
MaxDistanceSteps == 40 \* distances formatted: 0..MaxDistanceSteps steps of 50 m
MaxCategoryId == 20    \* numeric category ids looked up: -1..MaxCategoryId

\* ------------------------------------------------------------ values
NULL == "null"
Points == {"A", "B"}
Roles == {"start", "end"}
Variants == {"timestamps", "interval"}
Timestamps == 1..MaxTimestamp

\* The summary card before a summary exists.
NoCall == [fn |-> "none", arg |-> 0, rendered |-> FALSE]
NotRendered == <<>>

\* routeGeojson: the stored response.data; fetch = 0 stands for null.
NoRoute == [fetch |-> 0, ncoords |-> 0]
\* routeSummary: the extracted summary; fetch = 0 stands for null.
NoSummary == [fetch |-> 0]

\* error: the message as the sequence of the pieces it is concatenated from;
\* <<>> stands for null.
NoError == <<>>
ErrPrefix == "Failed to fetch route."
ErrMissingProps == <<"Route found, but properties data is missing.">>
ErrNoFeatures == <<"No route features found in the response.">>
ErrNoResponse == <<ErrPrefix, " No response received from server.">>
ErrNoPoints == <<"Please set both a start and an end point on the map.">>
ErrNoKey ==
  <<"OpenRouteService API Key is missing. Check environment variables.">>

\* message += ` Status: ${err.response.status}. ${err.response.data?.error?.message || ""}`
ErrRejected(status, message) == <<ErrPrefix, " Status: ", status, ". ", message>>

\* message += ` ${err.message}`
ErrThrown(message) == <<ErrPrefix, " ", message>>

\* What a rejecting server answers: the status and data.error.message ("" when
\* the body carries none).
Statuses == {"404", "500"}
ServerMessages == {"", "Route could not be found"}
TypeErrorMessage == "Cannot read properties of null (reading 'properties')"

VARIABLES
  \* App (useState)
  startPoint, endPoint, routeGeojson, routeSummary, isLoading, error,
  showInputs, settingPointMode,
  \* route requests in flight, and how many were issued
  pending, fetchSeq,
  \* the build: VITE_ORS_API_KEY set or not
  hasOrsKey,
  \* MapComponent
  variant, hasToken, hasSetTiles, phase, mapRef, mapLoaded, onMapClickRef,
  startMarkerRef, endMarkerRef,
  isRadarActive, radarTimestamps, selectedTimestamp, radarError,
  radarIntervalRef, radarPending, radarSeq,
  \* the mapbox map instance
  mapStatus, clickListeners, clickRegistrations, layers, routeSource,
  radarSource, radarVisible, markers, timers,
  \* whether a map mutation was ever performed on a map that was not loaded
  mutatedUnready,
  \* what the last run of the route effect did about fitting the map to the
  \* route: "none", "requested" (fitBounds called), "failed" (it threw)
  lastFit,
  \* the summary card: the helper rendered and its argument, and what it gave
  cardCall, cardOut

appVars == <<startPoint, endPoint, routeGeojson, routeSummary, isLoading,
             error, showInputs, settingPointMode>>
netVars == <<pending, fetchSeq>>
buildVars == <<variant, hasToken, hasSetTiles, hasOrsKey>>
cardVars == <<cardCall, cardOut>>
pageVars == <<startPoint, endPoint, routeGeojson, routeSummary, isLoading,
              error, showInputs, settingPointMode, pending, fetchSeq,
              hasOrsKey, variant, hasToken, hasSetTiles, phase, mapRef,
              mapLoaded, onMapClickRef, startMarkerRef, endMarkerRef,
              isRadarActive, radarTimestamps, selectedTimestamp, radarError,
              radarIntervalRef, radarPending, radarSeq, mapStatus,
              clickListeners, clickRegistrations, layers, routeSource,
              radarSource, radarVisible, markers, timers, mutatedUnready,
              lastFit>>
vars == <<startPoint, endPoint, routeGeojson, routeSummary, isLoading, error,
          showInputs, settingPointMode, pending, fetchSeq, hasOrsKey,
          variant, hasToken, hasSetTiles, phase, mapRef, mapLoaded,
          onMapClickRef, startMarkerRef, endMarkerRef,
          isRadarActive, radarTimestamps, selectedTimestamp, radarError,
          radarIntervalRef, radarPending, radarSeq,
          mapStatus, clickListeners, clickRegistrations, layers, routeSource,
          radarSource, radarVisible, markers, timers, mutatedUnready,
          lastFit, cardCall, cardOut>>

\* ------------------------------------------------------------ App
\* The closure useCallback builds in one render: it captures that render's
\* showInputs and settingPointMode.
handleMapClick(si, mode) == [showInputs |-> si, settingPointMode |-> mode]

\* A faulty variant of ClickSetsStart: the panel's visibility is not consulted.
ClickSetsStartPanelIgnored(h) == h.settingPointMode = "start"

\* What a call of the closure h does.
ClickSetsStart(h) == h.showInputs /\ h.settingPointMode = "start"

ClickSetsEnd(h) == h.showInputs /\ h.settingPointMode = "end"

\* A faulty variant of ModeAfterClick: the mode is not advanced.
ModeAfterClickKept(h, cur) == cur

ModeAfterClick(h, cur) ==
  IF ClickSetsStart(h) THEN "end" ELSE IF ClickSetsEnd(h) THEN NULL ELSE cur

\* Several setState calls on one state in one batch: the last value wins.
LastWrite(writes) == writes[Len(writes)]

\* Disabled flags of the panel's buttons.
SetStartDisabled == settingPointMode = "start"

\* A faulty variant of SetEndDisabled: enabled without a start point.
SetEndDisabledModeOnly == settingPointMode = "end"

SetEndDisabled == startPoint = NULL \/ settingPointMode = "end"

\* A faulty variant of CalculateDisabled: isLoading is not consulted.
CalculateDisabledNoLoading == startPoint = NULL \/ endPoint = NULL

CalculateDisabled == startPoint = NULL \/ endPoint = NULL \/ isLoading

ClearDisabled == isLoading

\* The shapes of what a directions request resolves to.
RouteResponses ==
  [kind : {"noResponse", "nullFeature"}, features : {0}, props : {FALSE},
   ncoords : {0}, status : {""}, message : {""}]
  \cup [kind : {"rejected"}, features : {0}, props : {FALSE}, ncoords : {0},
        status : Statuses, message : ServerMessages]
  \cup [kind : {"data"}, features : {0}, props : {FALSE}, ncoords : {0},
        status : {""}, message : {""}]
  \cup [kind : {"data"}, features : {1}, props : BOOLEAN,
        ncoords : 0..MaxCoords, status : {""}, message : {""}]

\* fetchRoute, from the response on: the values it leaves in
\* routeGeojson, routeSummary and error.
ResponseOk(resp) == resp.kind = "data" /\ resp.features > 0

GeojsonAfter(id, resp) ==
  IF ResponseOk(resp) THEN [fetch |-> id, ncoords |-> resp.ncoords]
  ELSE NoRoute

SummaryAfter(id, resp) ==
  IF ResponseOk(resp) /\ resp.props THEN [fetch |-> id] ELSE NoSummary

\* A faulty variant of ErrorAfter: a rejection reads like a silent server.
ErrorAfterRejectedAsSilent(resp, cur) ==
  CASE resp.kind \in {"noResponse", "rejected"} -> ErrNoResponse
    [] resp.kind = "nullFeature" -> ErrThrown(TypeErrorMessage)
    [] resp.kind = "data" /\ resp.features = 0 -> ErrNoFeatures
    [] resp.kind = "data" /\ resp.features > 0 /\ ~resp.props -> ErrMissingProps
    [] OTHER -> cur

ErrorAfter(resp, cur) ==
  CASE resp.kind = "noResponse" -> ErrNoResponse
    [] resp.kind = "rejected" -> ErrRejected(resp.status, resp.message)
    [] resp.kind = "nullFeature" -> ErrThrown(TypeErrorMessage)
    [] resp.kind = "data" /\ resp.features = 0 -> ErrNoFeatures
    [] resp.kind = "data" /\ resp.features > 0 /\ ~resp.props -> ErrMissingProps
    [] OTHER -> cur

\* ------------------------------------------------------------ the map
RadarLayer == "rainviewer-layer"

RouteLayer == IF variant = "timestamps" THEN "route-layer" ELSE "route"

\* The custom layers' place among the style's layers: the outdoors style has
\* symbol (label) layers above its fill layers.
BaseLayers == <<"land", "road-label">>

IsSymbol(id) == id = "road-label"

Remove(lay, id) == SelectSeq(lay, LAMBDA x : x # id)

IndexOf(lay, id) ==
  IF \E i \in 1..Len(lay) : lay[i] = id
  THEN CHOOSE i \in 1..Len(lay) : lay[i] = id /\ \A j \in 1..(i - 1) : lay[j] # id
  ELSE 0

\* A faulty variant of AddLayer: the before-id is ignored.
AddLayerOnTop(lay, id, before) == Append(lay, id)

\* map.addLayer(layer, before): below `before`, on top when there is none.
AddLayer(lay, id, before) ==
  LET i == IndexOf(lay, before) IN
  IF i = 0 THEN Append(lay, id)
  ELSE SubSeq(lay, 1, i - 1) \o <<id>> \o SubSeq(lay, i, Len(lay))

\* map.getStyle().layers.find(layer => layer.type === "symbol")?.id || ROUTE_LAYER_ID
RadarAnchor(lay) ==
  IF \E i \in 1..Len(lay) : IsSymbol(lay[i])
  THEN lay[CHOOSE i \in 1..Len(lay) :
             IsSymbol(lay[i]) /\ \A j \in 1..(i - 1) : ~IsSymbol(lay[j])]
  ELSE RouteLayer

NoMarkers == [k \in Roles \X Points |-> 0]

\* ------------------------------------------------------------ effects
\* A faulty variant of EffectGate: mapLoaded is not consulted.
EffectGateRefOnly(ml, ref) == ref

\* `if (!mapLoaded || !mapRef.current) return;`
EffectGate(ml, ref) == ml /\ ref

\* A faulty variant of RefreshClickRef: the cell keeps the first handler.
RefreshClickRefStale(cur, handler) == cur

\* useEffect(() => { onMapClickRef.current = onMapClick }, [onMapClick])
RefreshClickRef(cur, handler) == handler

\* A faulty variant of RouteEffect: a null route leaves the source as it is.
RouteEffectKeepsStale(src, geo) ==
  IF src = <<>> \/ geo = NoRoute THEN src ELSE <<geo>>

\* A faulty variant of FitCaught: no try/catch around the fitting.
FitNotCaught == FALSE

\* try { ... map.fitBounds(bounds, ...) } catch (e) { console.error(...) }
FitCaught == TRUE

\* Whether the route effect goes on to fit the map to the route.
FitRequested(geo) ==
  IF variant = "timestamps" THEN geo # NoRoute /\ geo.ncoords > 1
  ELSE geo # NoRoute /\ geo.ncoords > 0

\* What can come of it: bounds.extend or fitBounds may throw.
FitOutcomes(geo) == IF FitRequested(geo) THEN {"requested", "failed"} ELSE {"none"}

\* Update Route: the route source's data after the effect (src is <<>> when
\* the source does not exist, <<d>> when it holds d).
RouteEffect(src, geo) == IF src = <<>> THEN src ELSE <<geo>>

\* A faulty variant of MarkersRemoved: the previous markers stay.
MarkersNotRemoved(mk, sref, eref) == mk

\* A faulty variant of MarkersRemoved: only the start marker is removed.
MarkersRemovedStartOnly(mk, sref, eref) ==
  [k \in DOMAIN mk |->
     IF k = <<"start", sref>> /\ mk[k] > 0 THEN mk[k] - 1 ELSE mk[k]]

\* Update Markers: remove what the refs hold, then place the new ones.
MarkersRemoved(mk, sref, eref) ==
  [k \in DOMAIN mk |->
     IF k \in {<<"start", sref>>, <<"end", eref>>} /\ mk[k] > 0
     THEN mk[k] - 1 ELSE mk[k]]

MarkersAdded(mk, sp, ep) ==
  [k \in DOMAIN mk |->
     IF k \in {<<"start", sp>>, <<"end", ep>>} THEN mk[k] + 1 ELSE mk[k]]

MarkerEffect(mk, sref, eref, sp, ep) ==
  MarkersAdded(MarkersRemoved(mk, sref, eref), sp, ep)

\* A faulty variant of TimersAfterClear: clearInterval stops nothing.
TimersNotCleared(n, ref) == n

\* A faulty variant of RadarEffectTimestamps: the layer is never hidden.
RadarEffectTimestampsNoHide(src, vis, lay, active, tsList, sel) ==
  IF sel = 0 \/ src = <<>> THEN [src |-> src, vis |-> vis, layers |-> lay]
  ELSE IF active /\ Len(tsList) > 0
  THEN [src |-> <<sel>>, vis |-> TRUE, layers |-> lay]
  ELSE [src |-> src, vis |-> vis, layers |-> lay]

\* A faulty variant of RadarEffectTimestamps: the fallback removes the layer
\* and does not add it again.
RadarEffectTimestampsNoReadd(src, vis, lay, active, tsList, sel) ==
  IF sel = 0 \/ src = <<>> THEN [src |-> src, vis |-> vis, layers |-> lay]
  ELSE IF active /\ Len(tsList) > 0
  THEN [src |-> <<sel>>, vis |-> TRUE,
        layers |-> IF hasSetTiles THEN lay ELSE Remove(lay, RadarLayer)]
  ELSE [src |-> src, vis |-> FALSE, layers |-> lay]

\* Manage Radar Layer (timestamps variant): the radar source (<<>> absent,
\* <<t>> tiles of timestamp t, <<0>> no tiles), the layer's visibility and the
\* layer stack after the effect.
RadarEffectTimestamps(src, vis, lay, active, tsList, sel) ==
  IF sel = 0 \/ src = <<>> THEN [src |-> src, vis |-> vis, layers |-> lay]
  ELSE IF active /\ Len(tsList) > 0
  THEN [src |-> <<sel>>, vis |-> TRUE,
        layers |-> IF hasSetTiles THEN lay
                   ELSE AddLayer(Remove(lay, RadarLayer), RadarLayer,
                                 RadarAnchor(Remove(lay, RadarLayer)))]
  ELSE [src |-> src, vis |-> FALSE, layers |-> lay]

\* A faulty variant of RadarEffectInterval: an existing source keeps its tiles.
RadarEffectIntervalKeepsTiles(src, vis, lay, active, ts) ==
  IF active /\ ts # 0
  THEN [src |-> IF src = <<>> THEN <<ts>> ELSE src, vis |-> TRUE,
        layers |-> AddLayer(Remove(lay, RadarLayer), RadarLayer, RouteLayer)]
  ELSE [src |-> <<>>, vis |-> FALSE, layers |-> Remove(lay, RadarLayer)]

\* manageRadarLayer (interval variant).
RadarEffectInterval(src, vis, lay, active, ts) ==
  IF active /\ ts # 0
  THEN [src |-> <<ts>>, vis |-> TRUE,
        layers |-> AddLayer(Remove(lay, RadarLayer), RadarLayer, RouteLayer)]
  ELSE [src |-> <<>>, vis |-> FALSE, layers |-> Remove(lay, RadarLayer)]

\* The cleanup the interval variant's radar effect returns, run before the
\* effect runs again.
RadarCleanupInterval(src, vis, lay, ref, styleLoaded) ==
  IF ref /\ styleLoaded
  THEN [src |-> <<>>, vis |-> FALSE, layers |-> Remove(lay, RadarLayer)]
  ELSE [src |-> src, vis |-> vis, layers |-> lay]

\* clearInterval(radarIntervalRef.current): the number of running timers.
TimersAfterClear(n, ref) == IF ref = "active" THEN n - 1 ELSE n

\* A faulty variant of TimersAfterRestart: the running timer is not cleared
\* before the new one is set.
TimersAfterRestartNoClear(n, ref) == n + 1

\* if (radarIntervalRef.current) clearInterval(...); then setInterval(...).
TimersAfterRestart(n, ref) == TimersAfterClear(n, ref) + 1

\* Whether a run of the marker effect calls Marker.remove or Marker.addTo.
MarkerCalls(sref, eref, sp, ep) == {sref, eref, sp, ep} # {NULL}

\* Whether a run of the radar effect past its gate calls a source or layer
\* operation of the map.
RadarCalls(src, active, ts) ==
  IF variant = "interval" THEN (active /\ ts # 0) \/ src # <<>>
  ELSE ts # 0 /\ src # <<>>

\* ------------------------------------------------------------ commit
\* What a handler leaves for the effects to start from.
Cur == [layers |-> layers, routeSource |-> routeSource,
        radarSource |-> radarSource, radarVisible |-> radarVisible,
        radarError |-> radarError, radarPending |-> radarPending,
        radarSeq |-> radarSeq]

NoDeps == [route |-> FALSE, markers |-> FALSE, radar |-> FALSE]

\* A faulty variant of AllDeps: mapLoaded is in no dependency array.
AllDepsButLoaded == NoDeps

AllDeps == [route |-> TRUE, markers |-> TRUE, radar |-> TRUE]

\* The re-render after a handler and the effects whose dependencies changed
\* (d), run on the state the handler left (the primed React state, and pre for
\* what the effects themselves write).
Commit(d, pre) ==
  LET gate == EffectGate(mapLoaded', mapRef')
      runRoute == d.route /\ gate
      \* an exception leaving the route effect ends the commit
      aborted == runRoute /\ lastFit' = "failed" /\ ~FitCaught
      runMarkers == d.markers /\ gate /\ ~aborted
      runRadar == d.radar /\ gate /\ ~aborted
      interval == variant = "interval"
      fetches == interval /\ runRadar /\ isRadarActive' /\ selectedTimestamp' = 0
      base == [src |-> pre.radarSource, vis |-> pre.radarVisible,
               layers |-> pre.layers]
  IN
  /\ lastFit' \in IF runRoute /\ pre.routeSource # <<>>
                  THEN FitOutcomes(routeGeojson') ELSE {lastFit}
  /\ fetches => pre.radarSeq < MaxRadarFetches
  /\ onMapClickRef' =
       RefreshClickRef(onMapClickRef,
                       handleMapClick(showInputs', settingPointMode'))
  /\ routeSource' = IF runRoute THEN RouteEffect(pre.routeSource, routeGeojson')
                    ELSE pre.routeSource
  /\ markers' = IF runMarkers
                THEN MarkerEffect(markers, startMarkerRef, endMarkerRef,
                                  startPoint', endPoint')
                ELSE markers
  /\ startMarkerRef' = IF runMarkers THEN startPoint' ELSE startMarkerRef
  /\ endMarkerRef' = IF runMarkers THEN endPoint' ELSE endMarkerRef
  /\ \E styleLoaded \in BOOLEAN :
       LET cleaned == IF interval /\ d.radar /\ mapLoaded
                      THEN RadarCleanupInterval(base.src, base.vis, base.layers,
                                                mapRef', styleLoaded)
                      ELSE base
           after == IF ~runRadar THEN cleaned
                    ELSE IF interval
                    THEN RadarEffectInterval(cleaned.src, cleaned.vis,
                                             cleaned.layers, isRadarActive',
                                             selectedTimestamp')
                    ELSE RadarEffectTimestamps(cleaned.src, cleaned.vis,
                                               cleaned.layers, isRadarActive',
                                               radarTimestamps',
                                               selectedTimestamp')
       IN /\ radarSource' = after.src
          /\ radarVisible' = after.vis
          /\ layers' = after.layers
  /\ timers' = IF interval /\ runRadar
               THEN (IF isRadarActive'
                     THEN TimersAfterRestart(timers, radarIntervalRef)
                     ELSE TimersAfterClear(timers, radarIntervalRef))
               ELSE timers
  /\ radarIntervalRef' = IF interval /\ runRadar
                         THEN (IF isRadarActive' THEN "active" ELSE "null")
                         ELSE radarIntervalRef
  /\ radarError' = IF fetches THEN NULL ELSE pre.radarError
  /\ radarPending' = IF fetches THEN pre.radarPending + 1 ELSE pre.radarPending
  /\ radarSeq' = IF fetches THEN pre.radarSeq + 1 ELSE pre.radarSeq
  /\ mutatedUnready' =
       (mutatedUnready
        \/ (mapStatus' # "loaded"
            /\ (\/ (runRoute /\ pre.routeSource # <<>>)
                \/ (runMarkers
                    /\ MarkerCalls(startMarkerRef, endMarkerRef, startPoint',
                                   endPoint'))
                \/ (runRadar
                    /\ RadarCalls(pre.radarSource, isRadarActive',
                                  selectedTimestamp')))))

mapVars == <<mapStatus, clickListeners, clickRegistrations>>
compVars == <<phase, mapRef, mapLoaded>>
radarState == <<isRadarActive, radarTimestamps, selectedTimestamp>>

\* ------------------------------------------------------------ Init
AppInit ==
  /\ startPoint = NULL /\ endPoint = NULL
  /\ routeGeojson = NoRoute /\ routeSummary = NoSummary
  /\ isLoading = FALSE /\ error = NoError
  /\ showInputs = FALSE /\ settingPointMode = NULL
  /\ pending = {} /\ fetchSeq = 0
  /\ hasOrsKey \in BOOLEAN
  /\ variant \in Variants
  /\ hasToken \in BOOLEAN
  /\ hasSetTiles \in (IF variant = "timestamps" THEN BOOLEAN ELSE {TRUE})
  /\ phase = "initial" /\ mapRef = FALSE /\ mapLoaded = FALSE
  /\ onMapClickRef = handleMapClick(FALSE, NULL)
  /\ startMarkerRef = NULL /\ endMarkerRef = NULL
  /\ isRadarActive = FALSE /\ radarTimestamps = <<>>
  /\ selectedTimestamp = 0 /\ radarError = NULL
  /\ radarIntervalRef = "null" /\ radarPending = 0 /\ radarSeq = 0
  /\ mapStatus = "none" /\ clickListeners = 0 /\ clickRegistrations = 0
  /\ layers = <<>> /\ routeSource = <<>> /\ radarSource = <<>>
  /\ radarVisible = FALSE /\ markers = NoMarkers /\ timers = 0
  /\ mutatedUnready = FALSE /\ lastFit = "none"

\* No route summary yet: the card renders nothing.
Init == AppInit /\ cardCall = NoCall /\ cardOut = NotRendered

\* ------------------------------------------------------------ lifecycle
\* The first render's effects: the radar timestamps request (timestamps
\* variant) and the map's construction.
Mount ==
  /\ phase = "initial"
  /\ phase' = "mounted"
  /\ mapRef' = hasToken
  /\ mapStatus' = IF hasToken THEN "loading" ELSE mapStatus
  /\ clickListeners' = IF hasToken THEN clickListeners + 1 ELSE clickListeners
  /\ clickRegistrations' = IF hasToken THEN clickRegistrations + 1
                           ELSE clickRegistrations
  /\ UNCHANGED <<appVars, netVars, buildVars, cardVars, mapLoaded, radarState>>
  /\ Commit(AllDeps,
            IF variant = "timestamps"
            THEN [Cur EXCEPT !.radarError = NULL, !.radarPending = 1,
                             !.radarSeq = 1]
            ELSE Cur)

\* map.on("load", ...): setMapLoaded(true), then the sources and layers: the
\* layer stack the handler leaves.
LoadedLayers ==
  LET withRoute == Append(BaseLayers, RouteLayer) IN
  IF variant = "timestamps"
  THEN AddLayer(withRoute, RadarLayer, RadarAnchor(withRoute))
  ELSE withRoute

\* A faulty variant of AfterLoadHandler: the effects run as soon as the flag
\* is set, before the handler has created anything.
AfterLoadHandlerFlagOnly == Cur

\* What the load handler leaves for the effects: it has run to its end
\* before the re-render that setMapLoaded(true) asked for.
AfterLoadHandler ==
  [Cur EXCEPT !.layers = LoadedLayers, !.routeSource = <<NoRoute>>,
              !.radarSource = IF variant = "timestamps" THEN <<0>>
                              ELSE radarSource]

Load ==
  /\ mapStatus = "loading"
  /\ mapStatus' = "loaded"
  /\ mapLoaded' = TRUE
  /\ UNCHANGED <<appVars, netVars, buildVars, cardVars, phase, mapRef, radarState,
                 clickListeners, clickRegistrations>>
  /\ Commit(AllDeps, AfterLoadHandler)

\* Faulty variants of the cleanup: the listener stays; the flag stays; the
\* reference stays.
ListenersAfterOffKept(n) == n

LoadedAfterCleanupKept == TRUE

RefAfterCleanupKept == TRUE

\* The init effect's cleanup: map.off("click", handleMapClickInternal) and
\* setMapLoaded(false).
ListenersAfterOff(n) == n - 1

LoadedAfterCleanup == FALSE

\* mapRef.current = null
RefAfterCleanup == FALSE

\* Unmount: the init effect's cleanup, then the radar effect's (which finds
\* mapRef.current null).
Teardown ==
  /\ phase = "mounted"
  /\ phase' = "unmounted"
  /\ timers' = IF variant = "interval" /\ radarIntervalRef # "null"
               THEN TimersAfterClear(timers, radarIntervalRef) ELSE timers
  /\ radarIntervalRef' = IF variant = "interval" /\ radarIntervalRef = "active"
                         THEN "cleared" ELSE radarIntervalRef
  /\ IF mapRef
     THEN /\ clickListeners' = ListenersAfterOff(clickListeners)
          /\ mapStatus' = "removed"
          /\ mapRef' = RefAfterCleanup
          /\ mapLoaded' = LoadedAfterCleanup
          /\ layers' = <<>> /\ routeSource' = <<>> /\ radarSource' = <<>>
          /\ radarVisible' = FALSE /\ markers' = NoMarkers
     ELSE UNCHANGED <<clickListeners, mapStatus, mapRef, mapLoaded, layers,
                      routeSource, radarSource, radarVisible, markers>>
  /\ UNCHANGED <<appVars, netVars, buildVars, cardVars, radarState, onMapClickRef,
                 startMarkerRef, endMarkerRef, radarError, radarPending,
                 radarSeq, clickRegistrations, mutatedUnready, lastFit>>

\* Everything the commit writes, left alone (a step of an unmounted tree).
NoCommit ==
  UNCHANGED <<onMapClickRef, routeSource, markers, startMarkerRef,
              endMarkerRef, radarSource, radarVisible, layers, timers,
              radarIntervalRef, radarError, radarPending, radarSeq,
              mutatedUnready, lastFit>>

\* The dependencies of the route and marker effects that a step changed.
PropDeps(clicked) ==
  [route |-> routeGeojson' # routeGeojson,
   markers |-> clicked \/ startPoint' # startPoint \/ endPoint' # endPoint,
   radar |-> FALSE]

\* ------------------------------------------------------------ App actions
\* clearRoute(), but for its last write, setSettingPointMode(null).
clearRoute ==
  /\ startPoint' = NULL /\ endPoint' = NULL
  /\ routeGeojson' = NoRoute /\ routeSummary' = NoSummary
  /\ error' = NoError

\* The Get Directions button: setShowInputs(true); setSettingPointMode("start");
\* clearRoute().
GetDirections ==
  /\ phase = "mounted" /\ ~showInputs
  /\ showInputs' = TRUE
  /\ settingPointMode' = LastWrite(<<"start", NULL>>)
  /\ clearRoute
  /\ UNCHANGED <<isLoading, netVars, buildVars, cardVars, compVars, mapVars, radarState>>
  /\ Commit(PropDeps(FALSE), Cur)

SetStartMode ==
  /\ phase = "mounted" /\ showInputs /\ ~SetStartDisabled
  /\ settingPointMode' = "start"
  /\ UNCHANGED <<startPoint, endPoint, routeGeojson, routeSummary, isLoading,
                 error, showInputs, netVars, buildVars, cardVars, compVars, mapVars,
                 radarState>>
  /\ Commit(PropDeps(FALSE), Cur)

SetEndMode ==
  /\ phase = "mounted" /\ showInputs /\ ~SetEndDisabled
  /\ settingPointMode' = "end"
  /\ UNCHANGED <<startPoint, endPoint, routeGeojson, routeSummary, isLoading,
                 error, showInputs, netVars, buildVars, cardVars, compVars, mapVars,
                 radarState>>
  /\ Commit(PropDeps(FALSE), Cur)

\* A faulty variant of FetchRouteRefused: the key is not looked at.
FetchRouteRefusedPointsOnly == startPoint = NULL \/ endPoint = NULL

\* fetchRoute's precondition checks and the message each sets.
FetchRouteRefused == startPoint = NULL \/ endPoint = NULL \/ ~hasOrsKey

RefusalError ==
  IF startPoint = NULL \/ endPoint = NULL THEN ErrNoPoints ELSE ErrNoKey

\* A faulty variant of RouteAtRequest: the previous route is kept.
RouteAtRequestKept(cur) == cur

\* setRouteGeojson(null) before the request is sent.
RouteAtRequest(cur) == NoRoute

\* The Calculate Route button: fetchRoute() up to its await.
Calculate ==
  /\ phase = "mounted" /\ showInputs /\ ~CalculateDisabled
  /\ IF FetchRouteRefused
     THEN /\ error' = RefusalError
          /\ UNCHANGED <<isLoading, routeGeojson, routeSummary, netVars>>
     ELSE /\ fetchSeq < MaxFetches
          /\ isLoading' = TRUE
          /\ error' = NoError
          /\ routeGeojson' = RouteAtRequest(routeGeojson)
          /\ routeSummary' = NoSummary
          /\ fetchSeq' = fetchSeq + 1
          /\ pending' = pending \cup {[id |-> fetchSeq + 1,
                                       start |-> startPoint,
                                       end |-> endPoint]}
  /\ UNCHANGED <<startPoint, endPoint, showInputs, settingPointMode, buildVars, cardVars,
                 compVars, mapVars, radarState>>
  /\ Commit(PropDeps(FALSE), Cur)

\* The Clear button.
Clear ==
  /\ phase = "mounted" /\ showInputs /\ ~ClearDisabled
  /\ clearRoute
  /\ settingPointMode' = LastWrite(<<NULL>>)
  /\ UNCHANGED <<isLoading, showInputs, netVars, buildVars, cardVars, compVars, mapVars,
                 radarState>>
  /\ Commit(PropDeps(FALSE), Cur)

\* The Hide Controls button.
Hide ==
  /\ phase = "mounted" /\ showInputs
  /\ showInputs' = FALSE
  /\ UNCHANGED <<startPoint, endPoint, routeGeojson, routeSummary, isLoading,
                 error, settingPointMode, netVars, buildVars, cardVars, compVars,
                 mapVars, radarState>>
  /\ Commit(PropDeps(FALSE), Cur)

\* The map delivers a click at p: handleMapClickInternal calls the closure
\* the cell holds.
MapClick(p) ==
  /\ phase = "mounted" /\ clickListeners > 0
  /\ LET h == onMapClickRef IN
     /\ startPoint' = IF ClickSetsStart(h) THEN p ELSE startPoint
     /\ endPoint' = IF ClickSetsEnd(h) THEN p ELSE endPoint
     /\ settingPointMode' = ModeAfterClick(h, settingPointMode)
     /\ UNCHANGED <<routeGeojson, routeSummary, isLoading, error, showInputs,
                    netVars, buildVars, cardVars, compVars, mapVars, radarState>>
     /\ Commit(PropDeps(ClickSetsStart(h) \/ ClickSetsEnd(h)), Cur)

\* A faulty variant of LoadingAfterResponse: the flag is left set.
LoadingAfterResponseKept == TRUE

\* finally { setIsLoading(false) }
LoadingAfterResponse == FALSE

\* fetchRoute() from its await on, for the request req resolving to resp.
RouteResponse(req, resp) ==
  /\ req \in pending
  /\ pending' = pending \ {req}
  /\ UNCHANGED <<fetchSeq, startPoint, endPoint, showInputs, settingPointMode,
                 buildVars, cardVars, compVars, mapVars, radarState>>
  /\ IF phase = "mounted"
     THEN /\ routeGeojson' = GeojsonAfter(req.id, resp)
          /\ routeSummary' = SummaryAfter(req.id, resp)
          /\ error' = ErrorAfter(resp, error)
          /\ isLoading' = LoadingAfterResponse
          /\ Commit(PropDeps(FALSE), Cur)
     ELSE /\ UNCHANGED <<routeGeojson, routeSummary, error, isLoading>>
          /\ NoCommit

\* ------------------------------------------------------------ radar actions
RECURSIVE InsertDesc(_, _)
InsertDesc(x, s) ==
  IF s = <<>> THEN <<x>>
  ELSE IF x >= Head(s) THEN <<x>> \o s
  ELSE <<Head(s)>> \o InsertDesc(x, Tail(s))

\* .sort((a, b) => b - a)
RECURSIVE SortDesc(_)
SortDesc(s) == IF s = <<>> THEN <<>> ELSE InsertDesc(Head(s), SortDesc(Tail(s)))

\* The frame lists of a response: distinct times in any order.
FrameLists ==
  UNION {{f \in [1..n -> Timestamps] : \A i, j \in 1..n : i # j => f[i] # f[j]}
         : n \in 0..MaxTimestamp}

\* The nowcast list is only ever sorted into the merged list or ignored: its
\* lists are taken in ascending order.
NowcastLists ==
  {f \in FrameLists : \A i, j \in 1..Len(f) : i < j => f[i] < f[j]}

RadarResponses ==
  [kind : {"fail", "malformed"}, past : {<<>>}, nowcast : {<<>>}]
  \cup [kind : {"data"}, past : FrameLists, nowcast : NowcastLists]

ErrRadarLoad == "Could not load weather data."
ErrRadarParse == "Failed to parse radar data."
ErrRadarEmpty == "No radar data available."
ErrRadarFetch == "Could not load radar data."

\* fetchTimestamps (timestamps variant) from its await on.
TimestampsAfter(resp, cur) ==
  CASE resp.kind = "fail" -> <<>>
    [] resp.kind = "data" -> SortDesc(resp.nowcast \o resp.past)
    [] OTHER -> cur

SelectedAfter(resp, cur) ==
  CASE resp.kind = "fail" -> 0
    [] resp.kind = "data" /\ Len(resp.nowcast \o resp.past) > 0 ->
         Head(SortDesc(resp.nowcast \o resp.past))
    [] OTHER -> cur

RadarErrorAfter(resp, cur) ==
  CASE resp.kind = "fail" -> ErrRadarLoad
    [] resp.kind = "malformed" -> ErrRadarParse
    [] resp.kind = "data" /\ Len(resp.nowcast \o resp.past) = 0 -> ErrRadarEmpty
    [] OTHER -> cur

\* fetchRainViewerData (interval variant) from its await on.
FramesAfter(resp) == IF resp.kind = "data" THEN resp.past ELSE <<>>

CurrentAfter(resp) ==
  IF resp.kind = "data" /\ Len(resp.past) > 0 THEN resp.past[Len(resp.past)]
  ELSE 0

IntervalErrorAfter(resp, cur) == IF resp.kind = "fail" THEN ErrRadarFetch ELSE cur

\* A faulty variant of RadarToggleDisabled: disabled whenever no timestamp is
\* held, error or not.
RadarToggleDisabledNoData == variant = "timestamps" /\ selectedTimestamp = 0

\* The radar button's disabled flag and click handler.
RadarToggleDisabled ==
  variant = "timestamps" /\ selectedTimestamp = 0 /\ radarError = NULL

\* A faulty variant of RadarActiveAfterToggle: the flag is always flipped.
RadarActiveAfterToggleUnguarded(active) == ~active

RadarActiveAfterToggle(active) ==
  IF variant = "timestamps"
     /\ (radarError # NULL \/ Len(radarTimestamps) = 0)
  THEN active ELSE ~active

\* The error indicator next to the radar button.
RadarWarningShown ==
  IF variant = "timestamps" THEN radarError # NULL
  ELSE radarError # NULL /\ isRadarActive

RadarToggle ==
  /\ phase = "mounted" /\ ~RadarToggleDisabled
  /\ isRadarActive' = RadarActiveAfterToggle(isRadarActive)
  /\ UNCHANGED <<appVars, netVars, buildVars, cardVars, compVars, mapVars,
                 radarTimestamps, selectedTimestamp>>
  /\ Commit([NoDeps EXCEPT !.radar = isRadarActive' # isRadarActive], Cur)

RadarResponse(resp) ==
  /\ radarPending > 0
  /\ UNCHANGED <<appVars, netVars, buildVars, cardVars, compVars, mapVars, isRadarActive>>
  /\ IF phase = "mounted"
     THEN IF variant = "timestamps"
          THEN /\ radarTimestamps' = TimestampsAfter(resp, radarTimestamps)
               /\ selectedTimestamp' = SelectedAfter(resp, selectedTimestamp)
               /\ Commit([NoDeps EXCEPT !.radar = resp.kind # "malformed"],
                         [Cur EXCEPT !.radarPending = radarPending - 1,
                                     !.radarError =
                                        RadarErrorAfter(resp, radarError)])
          ELSE /\ radarTimestamps' = FramesAfter(resp)
               /\ selectedTimestamp' = CurrentAfter(resp)
               /\ Commit([NoDeps EXCEPT
                            !.radar = selectedTimestamp' # selectedTimestamp],
                         [Cur EXCEPT !.radarPending = radarPending - 1,
                                     !.radarError =
                                        IntervalErrorAfter(resp, radarError)])
     ELSE /\ radarPending' = radarPending - 1
          /\ UNCHANGED <<radarTimestamps, selectedTimestamp, onMapClickRef,
                         routeSource, markers, startMarkerRef, endMarkerRef,
                         radarSource, radarVisible, layers, timers,
                         radarIntervalRef, radarError, radarSeq,
                         mutatedUnready, lastFit>>

\* A running interval timer fires: fetchRainViewerData() up to its await.
RadarTick ==
  /\ timers > 0
  /\ radarSeq < MaxRadarFetches
  /\ UNCHANGED <<appVars, netVars, buildVars, cardVars, compVars, mapVars, radarState>>
  /\ IF phase = "mounted"
     THEN Commit(NoDeps, [Cur EXCEPT !.radarError = NULL,
                                     !.radarPending = radarPending + 1,
                                     !.radarSeq = radarSeq + 1])
     ELSE /\ radarPending' = radarPending + 1
          /\ radarSeq' = radarSeq + 1
          /\ UNCHANGED <<onMapClickRef, routeSource, markers, startMarkerRef,
                         endMarkerRef, radarSource, radarVisible, layers,
                         timers, radarIntervalRef, radarError, mutatedUnready,
                         lastFit>>

\* The parent re-renders MapComponent with new props.
PropRoutes == {NoRoute} \cup [fetch : {1}, ncoords : 0..MaxCoords]

ParentRender(sp, ep, geo) ==
  /\ phase = "mounted"
  /\ \/ Cardinality({i \in 1..3 : <<sp, ep, geo>>[i]
                                  # <<startPoint, endPoint, routeGeojson>>[i]}) = 1
     \/ <<sp, ep, geo>> = <<NULL, NULL, NoRoute>>
  /\ startPoint' = sp /\ endPoint' = ep /\ routeGeojson' = geo
  /\ UNCHANGED <<routeSummary, isLoading, error, showInputs, settingPointMode,
                 netVars, buildVars, cardVars, compVars, mapVars, radarState>>
  /\ Commit(PropDeps(FALSE), Cur)

\* ------------------------------------------------------------ specifications
\* The App driving the MapComponent's props and receiving its clicks.
\* ------------------------------------------------------------ summary card
\* JavaScript values.  A string is the sequence of its characters; the labels
\* and colours of the tables are kept as one piece each.
JsNumber(n) == [t |-> "number", n |-> n, s |-> <<>>]

JsString(str) == [t |-> "string", n |-> 0, s |-> str]

JsNaN == [t |-> "NaN", n |-> 0, s |-> <<>>]

JsNull == [t |-> "null", n |-> 0, s |-> <<>>]

JsUndefined == [t |-> "undefined", n |-> 0, s |-> <<>>]

\* A member inherited from Object.prototype.
JsFunction == [t |-> "function", n |-> 0, s |-> <<>>]

DigitChars == <<"0", "1", "2", "3", "4", "5", "6", "7", "8", "9">>

IsDigit(c) == \E i \in 1..10 : DigitChars[i] = c

DigitValue(c) == (CHOOSE i \in 1..10 : DigitChars[i] = c) - 1

\* The decimal digits of a natural number.
RECURSIVE Digits(_)
Digits(n) ==
  IF n < 10 THEN <<DigitChars[n + 1]>>
  ELSE Digits(n \div 10) \o <<DigitChars[(n % 10) + 1]>>

\* The natural number a digit string denotes.
RECURSIVE NumberOf(_)
NumberOf(str) ==
  IF str = <<>> THEN 0
  ELSE 10 * NumberOf(SubSeq(str, 1, Len(str) - 1)) + DigitValue(str[Len(str)])

\* String(v): toString as template literals and property access apply it.
JsToString(v) ==
  CASE v.t = "number" -> IF v.n < 0 THEN <<"-">> \o Digits(-v.n) ELSE Digits(v.n)
    [] v.t = "string" -> v.s
    [] v.t = "NaN" -> <<"N", "a", "N">>
    [] v.t = "null" -> <<"n", "u", "l", "l">>
    [] v.t = "undefined" -> <<"u", "n", "d", "e", "f", "i", "n", "e", "d">>
    [] OTHER -> <<"f", "u", "n", "c", "t", "i", "o", "n">>

\* A faulty variant of PadStart: nothing is added.
PadStartNone(str, len, fill) == str

\* String.prototype.padStart with a one-character filler.
RECURSIVE PadStart(_, _, _)
PadStart(str, len, fill) ==
  IF Len(str) >= len THEN str ELSE PadStart(<<fill>> \o str, len, fill)

NotAvailable == JsString(<<"N", "/", "A">>)

formatDuration(seconds) ==
  IF seconds.t \in {"null", "undefined"} THEN NotAvailable
  ELSE LET hours == seconds.n \div 3600
           minutes == (seconds.n % 3600) \div 60
           formatted == IF hours > 0 THEN Digits(hours) \o <<"h", " ">> ELSE <<>>
       IN JsString(formatted \o PadStart(Digits(minutes), 2, "0") \o <<"m", "i", "n">>)

\* A faulty variant of KilometersToFixed: no decimal is written.
KilometersTruncated(meters, up) == Digits(meters \div 1000)

\* (meters / 1000).toFixed(1): the nearest tenth.  At a tie in decimal the
\* outcome depends on the binary double nearest to meters / 1000, which lies
\* above or below the tie (up).
KilometersToFixed(meters, up) ==
  LET rest == meters % 100
      tenths == IF rest > 50 \/ (rest = 50 /\ up) THEN meters \div 100 + 1
                ELSE meters \div 100
  IN Digits(tenths \div 10) \o <<".">> \o Digits(tenths % 10)

formatDistance(meters, up) ==
  IF meters.t \in {"null", "undefined"} THEN NotAvailable
  ELSE IF meters.n < 1000 THEN JsString(Digits(meters.n) \o <<" ", "m">>)
  ELSE JsString(KilometersToFixed(meters.n, up) \o <<" ", "k", "m">>)

\* Falsy values make `a || b` give b.
Truthy(v) ==
  ~ \/ v.t \in {"undefined", "null", "NaN"}
    \/ (v.t = "number" /\ v.n = 0)
    \/ (v.t = "string" /\ v.s = <<>>)

OrElse(a, b) == IF Truthy(a) THEN a ELSE b

\* Property names every object literal inherits.
PrototypeKeys ==
  {<<"c", "o", "n", "s", "t", "r", "u", "c", "t", "o", "r">>,
   <<"t", "o", "S", "t", "r", "i", "n", "g">>,
   <<"v", "a", "l", "u", "e", "O", "f">>,
   <<"h", "a", "s", "O", "w", "n", "P", "r", "o", "p", "e", "r", "t", "y">>,
   <<"_", "_", "p", "r", "o", "t", "o", "_", "_">>}

\* obj[key] on an object literal whose own properties are obj.
Get(obj, key) ==
  IF key \in DOMAIN obj THEN obj[key]
  ELSE IF key \in PrototypeKeys THEN JsFunction
  ELSE JsUndefined

\* The object literal with keys 0, 1, ... and the given values.
Table(values) ==
  [k \in {Digits(i) : i \in 0..(Len(values) - 1)} |->
     JsString(<<values[NumberOf(k) + 1]>>)]

DefaultKey == <<"d", "e", "f", "a", "u", "l", "t">>

WithDefault(table, value) ==
  [k \in DOMAIN table \cup {DefaultKey} |->
     IF k = DefaultKey THEN JsString(<<value>>) ELSE table[k]]

SURFACE_TYPES == Table(
  <<"Unknown", "Paved", "Unpaved", "Asphalt", "Concrete", "Cobblestone",
    "Metal", "Wood", "Compacted Gravel", "Fine Gravel", "Gravel", "Dirt",
    "Ground", "Ice", "Paving Stones", "Sand", "Woodchips", "Grass",
    "Grass Paver">>)

WAYTYPE_TYPES == Table(
  <<"Unknown", "State Road", "Road", "Street", "Path", "Track", "Cycleway",
    "Footway", "Steps", "Ferry", "Construction">>)

TRAIL_DIFFICULTY ==
  [k \in {<<"f", "o", "o", "t">>, <<"c", "y", "c", "l", "i", "n", "g">>} |->
     IF k = <<"f", "o", "o", "t">>
     THEN Table(
  <<"No tag", "Hiking (T1)", "Mountain hiking (T2)",
    "Demanding mountain hiking (T3)", "Alpine hiking (T4)",
    "Demanding alpine hiking (T5)", "Difficult alpine hiking (T6)">>)
     ELSE Table(
  <<"No tag", "MTB: Easy (S0)", "MTB: Medium (S1)", "MTB: Difficult (S2)",
    "MTB: Very difficult (S3)", "MTB: Extremely difficult (S4)",
    "MTB: Trials (S5)", "MTB: Insane (S6)">>)]

SURFACE_COLORS == WithDefault(Table(
  <<"#A9A9A9", "#708090", "#8B4513", "#686de0", "#B0C4DE", "#a4b0be",
    "#C0C0C0", "#a0522d", "#B8860B", "#D2B48C", "#ccae62", "#8c6c3f",
    "#8c6c3f", "#E0FFFF", "#a4b0be", "#f1d780", "#D2691E", "#4caf50",
    "#9ACD32">>), "#cccccc")

WAYTYPE_COLORS == WithDefault(Table(
  <<"#A9A9A9", "#1E90FF", "#4169E1", "#6495ED", "#FFA500", "#DAA520",
    "#32CD32", "#8B4513", "#708090", "#00BFFF", "#FF6347">>), "#cccccc")

Unknown == JsString(<<"Unknown">>)

getSurfaceType(value) == OrElse(Get(SURFACE_TYPES, JsToString(value)), Unknown)

getWaytypeName(value) == OrElse(Get(WAYTYPE_TYPES, JsToString(value)), Unknown)

StartsWith(str, prefix) ==
  Len(str) >= Len(prefix) /\ SubSeq(str, 1, Len(prefix)) = prefix

getTrailDifficultyName(value, profile) ==
  LET profileType == IF StartsWith(profile, <<"f", "o", "o", "t">>)
                     THEN <<"f", "o", "o", "t">>
                     ELSE <<"c", "y", "c", "l", "i", "n", "g">>
  IN IF profileType \in DOMAIN TRAIL_DIFFICULTY
     THEN OrElse(Get(TRAIL_DIFFICULTY[profileType], JsToString(value)), Unknown)
     ELSE Unknown

RECURSIVE TrimStart(_)
TrimStart(str) ==
  IF str # <<>> /\ Head(str) = " " THEN TrimStart(Tail(str)) ELSE str

RECURSIVE LeadingDigits(_)
LeadingDigits(str) ==
  IF str # <<>> /\ IsDigit(Head(str))
  THEN <<Head(str)>> \o LeadingDigits(Tail(str)) ELSE <<>>

\* A faulty variant of parseInt: the value is passed on as it is.
parseIntSkipped(v) == v

\* parseInt(v): the integer the string of v starts with, else NaN.
parseInt(v) ==
  LET str == TrimStart(JsToString(v))
      signed == str # <<>> /\ Head(str) \in {"-", "+"}
      ds == LeadingDigits(IF signed THEN Tail(str) ELSE str)
  IN IF ds = <<>> THEN JsNaN
     ELSE JsNumber(IF signed /\ Head(str) = "-" THEN -NumberOf(ds)
                   ELSE NumberOf(ds))

\* getMaxTrailDifficulty on a non-empty list of items' values.
RECURSIVE MaxDifficultyFrom(_, _)
MaxDifficultyFrom(values, maxDifficulty) ==
  IF values = <<>> THEN maxDifficulty
  ELSE LET val == parseInt(Head(values)) IN
       MaxDifficultyFrom(Tail(values),
                         IF val.t = "number" /\ val.n > maxDifficulty
                         THEN val.n ELSE maxDifficulty)

getMaxTrailDifficulty(values) ==
  IF values = <<>> THEN JsNull ELSE JsNumber(MaxDifficultyFrom(values, 0))

\* typeNameFn(value), typeNameFn being the helper the card passes by name.
Apply(typeNameFn, value) ==
  IF typeNameFn = "getSurfaceType" THEN getSurfaceType(value)
  ELSE getWaytypeName(value)

\* One segment of a BreakdownBar: the colour and the name of item.value.
BreakdownSegment(raw, colorMap, typeNameFn) ==
  LET value == parseInt(raw) IN
  [color |-> OrElse(Get(colorMap, JsToString(value)), Get(colorMap, DefaultKey)),
   label |-> Apply(typeNameFn, value)]

\* The Max Difficulty item of the card.
DifficultyStat(values, profile) ==
  LET maxTrailDifficulty == getMaxTrailDifficulty(values)
      showTrailDifficulty ==
        /\ StartsWith(profile, <<"f", "o", "o", "t">>)
           \/ StartsWith(profile, <<"c", "y", "c", "l", "i", "n", "g">>)
        /\ Truthy(maxTrailDifficulty)
  IN [shown |-> showTrailDifficulty,
      label |-> IF showTrailDifficulty
                THEN getTrailDifficultyName(maxTrailDifficulty, profile)
                ELSE JsUndefined]

\* The profiles of the Mode selector.
Profiles ==
  {<<"d", "r", "i", "v", "i", "n", "g", "-", "c", "a", "r">>,
   <<"c", "y", "c", "l", "i", "n", "g", "-", "r", "o", "a", "d">>,
   <<"c", "y", "c", "l", "i", "n", "g", "-", "m", "o", "u", "n", "t", "a", "i", "n">>,
   <<"f", "o", "o", "t", "-", "h", "i", "k", "i", "n", "g">>}

\* The values the card is rendered on.
DurationInputs ==
  {JsNumber(60 * k + r) : k \in 0..MaxMinutes, r \in {0, 59}}
  \cup {JsNumber(36000), JsNumber(359999), JsNull, JsUndefined}

DistanceInputs ==
  {JsNumber(50 * k) : k \in 0..MaxDistanceSteps}
  \cup {JsNumber(999), JsNumber(1001), JsNumber(9949), JsNumber(9950),
        JsNumber(9951), JsNumber(123456), JsNull, JsUndefined}

NumericIds == {JsNumber(n) : n \in (0 - 1)..MaxCategoryId}

NumericStrings == {JsString(<<"7">>), JsString(<<"1", "2">>), JsString(<<" ", "3">>),
                   JsString(<<"4", ".", "9">>)}

NonNumericIds ==
  {JsString(str) : str \in PrototypeKeys \cup {DefaultKey, <<>>, <<"a", "b", "c">>}}
  \cup {JsNull, JsUndefined, JsNaN}

RawIds == NumericIds \cup NumericStrings \cup NonNumericIds

CardCalls ==
  [fn : {"formatDuration"}, arg : DurationInputs, rendered : {FALSE}]
  \cup [fn : {"formatDistance"}, arg : DistanceInputs, rendered : {FALSE}]
  \cup [fn : {"surface", "waytype"}, arg : RawIds, rendered : {FALSE}]
  \cup [fn : {"difficulty"},
        arg : [profile : Profiles,
               values : {<<raw>> : raw \in RawIds}
                        \cup {<<JsNumber(2), JsNumber(5)>>,
                              <<JsNumber(5), JsString(<<"a", "b", "c">>)>>}],
        rendered : {FALSE}]

RenderDuration ==
  /\ cardCall.fn = "formatDuration" /\ ~cardCall.rendered
  /\ cardOut' = formatDuration(cardCall.arg)
  /\ cardCall' = [cardCall EXCEPT !.rendered = TRUE]
  /\ UNCHANGED pageVars

RenderDistance ==
  /\ cardCall.fn = "formatDistance" /\ ~cardCall.rendered
  /\ \E up \in BOOLEAN : cardOut' = formatDistance(cardCall.arg, up)
  /\ cardCall' = [cardCall EXCEPT !.rendered = TRUE]
  /\ UNCHANGED pageVars

RenderSurfaces ==
  /\ cardCall.fn = "surface" /\ ~cardCall.rendered
  /\ cardOut' = BreakdownSegment(cardCall.arg, SURFACE_COLORS,
                              "getSurfaceType")
  /\ cardCall' = [cardCall EXCEPT !.rendered = TRUE]
  /\ UNCHANGED pageVars

RenderWaytypes ==
  /\ cardCall.fn = "waytype" /\ ~cardCall.rendered
  /\ cardOut' = BreakdownSegment(cardCall.arg, WAYTYPE_COLORS,
                              "getWaytypeName")
  /\ cardCall' = [cardCall EXCEPT !.rendered = TRUE]
  /\ UNCHANGED pageVars

RenderDifficulty ==
  /\ cardCall.fn = "difficulty" /\ ~cardCall.rendered
  /\ cardOut' = DifficultyStat(cardCall.arg.values, cardCall.arg.profile)
  /\ cardCall' = [cardCall EXCEPT !.rendered = TRUE]
  /\ UNCHANGED pageVars

Next ==
  \/ Mount
  \/ Load
  \/ Teardown
  \/ GetDirections
  \/ SetStartMode
  \/ SetEndMode
  \/ Calculate
  \/ Clear
  \/ Hide
  \/ \E p \in Points : MapClick(p)
  \/ \E req \in pending : \E resp \in RouteResponses : RouteResponse(req, resp)

Spec == Init /\ [][Next]_vars

\* The MapComponent under any props, with its radar feed.
MapNext ==
  \/ Mount
  \/ Load
  \/ Teardown
  \/ \E sp, ep \in Points \cup {NULL} : \E geo \in PropRoutes :
       ParentRender(sp, ep, geo)
  \/ RadarToggle
  \/ \E resp \in RadarResponses : RadarResponse(resp)
  \/ RadarTick

\* The MapComponent does not read the directions key.
MapInit == Init /\ hasOrsKey

MapSpec == MapInit /\ [][MapNext]_vars

\* The App when every directions request completes: the server answers, the
\* request fails or the response is malformed.
LiveSpec ==
  /\ Init /\ [][Next]_vars
  /\ WF_vars(\E req \in pending : \E resp \in RouteResponses :
               RouteResponse(req, resp))

\* The summary card's helpers, each applied to one of the values above.
CardNext ==
  \/ RenderDuration
  \/ RenderDistance
  \/ RenderSurfaces
  \/ RenderWaytypes
  \/ RenderDifficulty

CardInit == AppInit /\ cardCall \in CardCalls /\ cardOut = NotRendered

CardSpec == CardInit /\ [][CardNext]_vars

\* ------------------------------------------------------------ properties
RadarShown ==
  radarVisible /\ \E i \in 1..Len(layers) : layers[i] = RadarLayer

RECURSIVE SumOver(_, _)
SumOver(r, S) ==
  IF S = {} THEN 0
  ELSE LET p == CHOOSE x \in S : TRUE IN markers[<<r, p>>] + SumOver(r, S \ {p})

MarkerCount(r) == SumOver(r, Points)

Lifecycle ==
  IF phase = "unmounted" THEN "Destroyed"
  ELSE CASE mapStatus = "none" -> "Uninitialized"
         [] mapStatus = "loading" -> "Initializing"
         [] mapStatus = "loaded" -> "Ready"
         [] OTHER -> "Destroyed"

LifeRank ==
  CASE Lifecycle = "Uninitialized" -> 0
    [] Lifecycle = "Initializing" -> 1
    [] Lifecycle = "Ready" -> 2
    [] OTHER -> 3

\* C1: no route-source update, marker placement or removal, or radar source or
\* layer operation is ever performed on a map that is not loaded (load not yet
\* fired, or torn down); while the map is not loaded it carries no marker, no
\* route source and no radar source or layer, whatever was asked for.
C1_NoMutationUnlessReady ==
  /\ ~mutatedUnready
  /\ mapStatus # "loaded" =>
       /\ markers = NoMarkers
       /\ routeSource = <<>>
       /\ radarSource = <<>>
       /\ ~RadarShown

C1_Witness ==
  /\ mapStatus = "loading"
  /\ startPoint # NULL /\ routeGeojson # NoRoute /\ isRadarActive
  /\ markers = NoMarkers /\ routeSource = <<>>

\* C2: on a loaded map, with the radar effect run for the current state, the
\* radar layer is shown if and only if the radar is enabled and the current
\* timestamp is non-null.
C2_RadarVisibleIff ==
  mapStatus = "loaded" =>
    (RadarShown <=> (isRadarActive /\ selectedTimestamp # 0))

C2_Witness ==
  /\ mapStatus = "loaded" /\ isRadarActive /\ selectedTimestamp # 0
  /\ RadarShown /\ radarSource = <<selectedTimestamp>>

\* C3: once a later route fetch has been issued, no result of an earlier fetch
\* is stored or rendered: the stored geometry, the stored summary and the
\* route source's data are empty or come from the latest fetch issued.
C3_OnlyLatestFetchRendered ==
  /\ routeGeojson.fetch \in {0, fetchSeq}
  /\ routeSummary.fetch \in {0, fetchSeq}
  /\ routeSource \in {<<>>, <<NoRoute>>} \/ routeSource[1].fetch = fetchSeq

C3_Witness ==
  /\ fetchSeq = 2 /\ routeGeojson.fetch = 2 /\ routeSummary.fetch = 2
  /\ routeSource = <<routeGeojson>>

\* C4: the route geometry is non-null if and only if the route summary is
\* non-null, and both come from the same fetch response.
C4_GeometryIffSummary ==
  /\ (routeGeojson # NoRoute) <=> (routeSummary # NoSummary)
  /\ routeGeojson.fetch = routeSummary.fetch

\* C5: at most one start marker and at most one end marker are on the map; on
\* a loaded map the markers are exactly one at the start point and one at the
\* end point, and none for a null point.
C5_OneMarkerPerRole ==
  /\ \A r \in Roles : MarkerCount(r) <= 1
  /\ mapStatus = "loaded" =>
       \A k \in Roles \X Points :
         markers[k] = IF k \in {<<"start", startPoint>>, <<"end", endPoint>>}
                      THEN 1 ELSE 0

C5_Witness ==
  /\ mapStatus = "loaded" /\ startPoint = "B" /\ endPoint = NULL
  /\ markers[<<"start", "B">>] = 1 /\ MarkerCount("start") = 1
  /\ MarkerCount("end") = 0

\* C6: with the panel open, mode "start" and no points, a click at p sets
\* start = p and mode "end"; from there a click at q sets end = q and mode
\* null, and leaves start = p.
C6_TwoClicksScenario ==
  [][\A p, q \in Points :
       /\ (/\ showInputs /\ settingPointMode = "start"
           /\ startPoint = NULL /\ endPoint = NULL
           /\ MapClick(p))
          => (startPoint' = p /\ settingPointMode' = "end" /\ endPoint' = NULL)
       /\ (/\ showInputs /\ settingPointMode = "end"
           /\ startPoint = p /\ endPoint = NULL
           /\ MapClick(q))
          => (endPoint' = q /\ settingPointMode' = NULL /\ startPoint' = p)]_vars

C6_Witness ==
  /\ showInputs /\ startPoint = "A" /\ endPoint = "B"
  /\ settingPointMode = NULL

\* C7: the Get Directions action, taken with the point-setting mode null,
\* leaves the mode at "start" (so that the next map click sets the start).
C7_GetDirectionsSetsStartMode ==
  [][(GetDirections /\ settingPointMode = NULL)
       => settingPointMode' = "start"]_vars

\* C8: a live map has exactly one click listener, a map that is not live has
\* none, and the listener is registered no more than once, however often the
\* handler's identity changes.
C8_OneClickListener ==
  /\ mapStatus \in {"loading", "loaded"} => clickListeners = 1
  /\ mapStatus \in {"none", "removed"} => clickListeners = 0
  /\ clickRegistrations <= 1

C8_Witness ==
  /\ mapStatus = "loaded" /\ clickListeners = 1 /\ clickRegistrations = 1
  /\ onMapClickRef = handleMapClick(TRUE, "end")

C11_TeardownAlwaysSafe ==
  /\ phase = "mounted" => ENABLED Teardown
  /\ phase = "unmounted" =>
       /\ ~mapRef /\ ~mapLoaded /\ clickListeners = 0
       /\ mapStatus \in {"none", "removed"}
       /\ mapStatus = "none" <=> ~hasToken

C11_Witness ==
  /\ phase = "unmounted" /\ mapStatus = "removed"
  /\ startPoint # NULL /\ startMarkerRef = NULL /\ layers = <<>>

\* C12: a radar polling timer runs only while the radar is enabled and the
\* component is mounted; there is never more than one; none runs after the
\* radar is disabled or the component is torn down.
C12_TimerOnlyWhileEnabled ==
  /\ timers \in {0, 1}
  /\ timers > 0 => (isRadarActive /\ phase = "mounted")
  /\ timers > 0 <=> radarIntervalRef = "active"

C12_Witness ==
  /\ variant = "interval" /\ mapStatus = "loaded" /\ radarSeq > 0
  /\ ~isRadarActive /\ timers = 0 /\ radarIntervalRef = "null"

\* The radar feed is running: from mount on in the timestamps variant, while
\* the radar is enabled on a loaded map in the interval variant.
FeedRunning ==
  /\ phase = "mounted"
  /\ variant = "interval" => (isRadarActive /\ mapLoaded)

\* The frame times a response lists, past and nowcast merged.
FramesOf(resp) == resp.nowcast \o resp.past

Newest(f) == CHOOSE t \in {f[i] : i \in 1..Len(f)} : \A i \in 1..Len(f) : f[i] <= t

\* C13: while the radar feed is running a refresh timer is armed, so that a
\* metadata fetch follows at every 10-minute tick; and a successful fetch
\* leaves the current timestamp derived from that response.
C13_FeedRefreshesWhileRunning ==
  FeedRunning => timers = 1

\* C14: a successful radar metadata fetch that lists at least one frame
\* leaves as current timestamp the maximum over the past and nowcast frames.
C14_CurrentIsNewestFrame ==
  [][\A resp \in RadarResponses :
       (/\ phase = "mounted" /\ resp.kind = "data" /\ Len(FramesOf(resp)) > 0
        /\ RadarResponse(resp))
       => selectedTimestamp' = Newest(FramesOf(resp))]_vars

\* C15: in the timestamps variant, after the metadata fetch returned empty
\* past and nowcast lists, the current timestamp is null, the warning is
\* shown, the radar button is enabled and can be pressed, and the radar layer
\* is not visible, however often the button is pressed.
C15_EmptyFeedScenario ==
  (variant = "timestamps" /\ phase = "mounted" /\ radarError = ErrRadarEmpty)
  => /\ selectedTimestamp = 0
     /\ RadarWarningShown
     /\ ~RadarToggleDisabled
     /\ ENABLED RadarToggle
     /\ ~RadarShown

C15_Witness ==
  /\ variant = "timestamps" /\ mapStatus = "loaded"
  /\ radarError = ErrRadarEmpty /\ radarTimestamps = <<>>
  /\ radarPending = 0 /\ ~RadarToggleDisabled

\* C16: a radar metadata fetch that fails, is malformed or lists no frames
\* leaves the current timestamp null and a non-null error.
C16_BadFeedClearsAndReports ==
  [][\A resp \in RadarResponses :
       (/\ phase = "mounted"
        /\ (resp.kind # "data" \/ Len(FramesOf(resp)) = 0)
        /\ RadarResponse(resp))
       => (selectedTimestamp' = 0 /\ radarError' # NULL)]_vars

\* A route fetch failed: nothing came back, the server rejected the request,
\* or the response has no features, a null first feature, or a first feature
\* without properties.
RouteFetchFailed(resp) == ~(ResponseOk(resp) /\ resp.props)

FailureClass(resp) ==
  CASE resp.kind = "noResponse" -> "network-unreachable"
    [] resp.kind = "rejected" -> "server-rejected"
    [] OTHER -> "malformed-response"

\* What a reader of the message can tell about the failure.
ClassOfMessage(m) ==
  IF m = ErrNoResponse THEN "network-unreachable"
  ELSE IF Len(m) = 5 /\ m[1] = ErrPrefix /\ m[2] = " Status: "
  THEN "server-rejected"
  ELSE "malformed-response"

\* C17: a failed route fetch leaves the route geometry null, the route
\* summary null and the error non-null.
C17_FailedFetchClearsRoute ==
  [][\A req \in pending : \A resp \in RouteResponses :
       (phase = "mounted" /\ RouteFetchFailed(resp) /\ RouteResponse(req, resp))
       => /\ routeGeojson' = NoRoute
          /\ routeSummary' = NoSummary
          /\ error' # NoError]_vars

\* C18: a failed route fetch leaves one error message, from which the class
\* of the failure (no response, rejected by the server, malformed response)
\* can be told; the message of a rejection carries the status and the
\* server's message.
C18_FailureClassesDistinguishable ==
  [][\A req \in pending : \A resp \in RouteResponses :
       (phase = "mounted" /\ RouteFetchFailed(resp) /\ RouteResponse(req, resp))
       => /\ error' # NoError
          /\ ClassOfMessage(error') = FailureClass(resp)
          /\ resp.kind = "rejected"
               => (error'[3] = resp.status /\ error'[5] = resp.message)]_vars

C18_Witness ==
  /\ error = ErrRejected("404", "Route could not be found")
  /\ ~isLoading /\ pending = {} /\ fetchSeq = 1

\* C19: fetchRoute called without the directions key, or without a start or
\* an end point, issues no request, sets an error, and leaves isLoading, the
\* points, the geometry and the summary as they were.
C19_RefusedFetchChangesNothing ==
  [][((~hasOrsKey \/ startPoint = NULL \/ endPoint = NULL) /\ Calculate)
       => /\ error' # NoError
          /\ UNCHANGED <<pending, fetchSeq, isLoading, startPoint, endPoint,
                         routeGeojson, routeSummary>>]_vars

C19_Witness ==
  /\ ~hasOrsKey /\ error = ErrNoKey /\ fetchSeq = 0 /\ pending = {}
  /\ startPoint # NULL /\ endPoint # NULL /\ ~isLoading

\* C20: on a loaded map, whenever the route and both points are null, the
\* route source holds the empty geometry and no marker is on the map,
\* whatever was rendered before.
C20_ClearingEmptiesMap ==
  (/\ mapStatus = "loaded" /\ phase = "mounted"
   /\ routeGeojson = NoRoute /\ startPoint = NULL /\ endPoint = NULL)
  => (routeSource = <<NoRoute>> /\ markers = NoMarkers)

C20_Witness ==
  /\ mapStatus = "loaded" /\ fetchSeq > 0 /\ pending = {}
  /\ routeGeojson = NoRoute /\ startPoint = NULL /\ endPoint = NULL
  /\ routeSource = <<NoRoute>> /\ markers = NoMarkers
  /\ startMarkerRef = NULL /\ endMarkerRef = NULL

\* The markers the props ask for.
DesiredMarkers(sp, ep) ==
  [k \in Roles \X Points |->
     IF k \in {<<"start", sp>>, <<"end", ep>>} THEN 1 ELSE 0]

\* C21: from any reachable state of a loaded map, reconciling the markers for
\* (start, end) and then once more for the same (start, end) leaves the same
\* markers as reconciling once: exactly one per non-null point, none doubled.
C21_MarkerReconciliationIdempotent ==
  mapStatus = "loaded" =>
    \A sp, ep \in Points \cup {NULL} :
      LET once == MarkerEffect(markers, startMarkerRef, endMarkerRef, sp, ep)
          twice == MarkerEffect(once, sp, ep, sp, ep)
      IN twice = once /\ once = DesiredMarkers(sp, ep)

C21_Witness ==
  /\ mapStatus = "loaded" /\ startPoint = "A" /\ endPoint = "B"
  /\ settingPointMode = "end"
  /\ markers = DesiredMarkers("A", "B")

\* C22: whenever the radar layer and the route layer are both on the map,
\* the radar layer is below the route layer.
C22_RadarBelowRoute ==
  (IndexOf(layers, RadarLayer) > 0 /\ IndexOf(layers, RouteLayer) > 0)
  => IndexOf(layers, RadarLayer) < IndexOf(layers, RouteLayer)

C22_Witness ==
  /\ variant = "timestamps" /\ ~hasSetTiles /\ mapStatus = "loaded"
  /\ isRadarActive /\ radarVisible /\ radarSource = <<selectedTimestamp>>
  /\ IndexOf(layers, RadarLayer) > 0 /\ IndexOf(layers, RouteLayer) > 0

\* C23: every step that ends with a loaded map, the load event's step
\* included, ends with the route source holding the current route and the
\* markers those of the current points: what was set before load is rendered
\* at load, and every later change is rendered in its own step.
C23_DesiredStateRendered ==
  [][mapStatus' = "loaded"
       => /\ routeSource' = <<routeGeojson'>>
          /\ markers' = DesiredMarkers(startPoint', endPoint')]_vars

C23_Witness ==
  /\ mapStatus = "loaded" /\ startPoint # NULL /\ endPoint # NULL
  /\ routeGeojson # NoRoute /\ routeSource = <<routeGeojson>>
  /\ markers = DesiredMarkers(startPoint, endPoint)
  /\ startMarkerRef = startPoint /\ endMarkerRef = endPoint

\* C24: whenever a route fetch was treated as successful (geometry and
\* summary stored), the stored geometry has at least two coordinates.
C24_SuccessHasTwoCoordinates ==
  (routeGeojson # NoRoute /\ routeSummary # NoSummary)
  => routeGeojson.ncoords >= 2

\* C30: whenever the radar layer is visible on a loaded map, the radar
\* source's tiles are those of the current timestamp.
C30_VisibleRadarIsCurrent ==
  (mapStatus = "loaded" /\ RadarShown) => radarSource = <<selectedTimestamp>>

C30_Witness ==
  /\ variant = "interval" /\ mapStatus = "loaded" /\ RadarShown
  /\ radarSeq >= 2 /\ radarPending = 0
  /\ selectedTimestamp = 1 /\ radarSource = <<1>>

\* C28: on a loaded map the route effect asks for a fit to the route's bounds
\* if and only if the route is non-null and has at least two coordinates.
C28_FitIffTwoCoordinates ==
  mapStatus = "loaded" =>
    (lastFit # "none" <=> (routeGeojson # NoRoute /\ routeGeojson.ncoords >= 2))

\* C29: when computing or fitting the bounds failed in the last run of the
\* route effect on a loaded map, the route source holds the current route,
\* the markers are those of the current points and the radar layer is shown
\* exactly when enabled with a timestamp.
C29_FitFailureIsLocal ==
  (mapStatus = "loaded" /\ lastFit = "failed")
  => /\ routeSource = <<routeGeojson>>
     /\ markers = DesiredMarkers(startPoint, endPoint)
     /\ RadarShown <=> (isRadarActive /\ selectedTimestamp # 0)

C29_Witness ==
  /\ mapStatus = "loaded" /\ lastFit = "failed"
  /\ routeGeojson # NoRoute /\ routeSource = <<routeGeojson>>
  /\ startPoint # NULL /\ endPoint # NULL
  /\ markers = DesiredMarkers(startPoint, endPoint)
  /\ isRadarActive /\ RadarShown

\* C25: the category lookups are total.  Whatever id an item carries, numeric
\* or not, in the table or not, a rendered breakdown segment has a label and
\* a colour that are non-empty strings, and a shown Max Difficulty has such a
\* label; an id outside the table gives "Unknown" and the default colour.
AllDigits(str) == \A i \in 1..Len(str) : IsDigit(str[i])

IsText(v) == v.t = "string" /\ v.s # <<>>

DefaultColor == JsString(<<"#cccccc">>)

C25_LookupsTotal ==
  /\ (cardCall.rendered /\ cardCall.fn \in {"surface", "waytype"})
     => /\ IsText(cardOut.label) /\ IsText(cardOut.color)
        /\ (\/ cardCall.arg \in NonNumericIds
            \/ (cardCall.arg.t = "number"
                /\ cardCall.arg.n \notin
                     0..(IF cardCall.fn = "surface" THEN 18 ELSE 10)))
           => (cardOut.label = Unknown /\ cardOut.color = DefaultColor)
  /\ (cardCall.rendered /\ cardCall.fn = "difficulty" /\ cardOut.shown)
     => /\ IsText(cardOut.label)
        /\ (\A i \in 1..Len(cardCall.arg.values) :
              \/ cardCall.arg.values[i] \in NonNumericIds
              \/ (cardCall.arg.values[i].t = "number"
                  /\ cardCall.arg.values[i].n > 7))
           => cardOut.label = Unknown

C25_Witness ==
  /\ cardCall.rendered /\ cardCall.fn = "surface"
  /\ cardCall.arg = JsString(<<"c", "o", "n", "s", "t", "r", "u", "c", "t", "o", "r">>)
  /\ cardOut = [label |-> Unknown, color |-> DefaultColor]

\* C26: for a non-negative integer number of seconds s, formatDuration(s) is
\* "<h>h <mm>min" when h = s div 3600 is positive and "<mm>min" otherwise,
\* with mm = (s mod 3600) div 60 in at least two digits; 5400 gives
\* "1h 30min".
C26_DurationFormat ==
  (cardCall.rendered /\ cardCall.fn = "formatDuration"
   /\ cardCall.arg.t = "number")
  => LET s == cardCall.arg.n
         h == s \div 3600
         mm == (s % 3600) \div 60
         out == cardOut.s
         n == Len(out)
         MinutesPart(str) ==
           /\ Len(str) >= 5
           /\ SubSeq(str, Len(str) - 2, Len(str)) = <<"m", "i", "n">>
           /\ AllDigits(SubSeq(str, 1, Len(str) - 3))
           /\ NumberOf(SubSeq(str, 1, Len(str) - 3)) = mm
     IN /\ cardOut.t = "string"
        /\ h = 0 => MinutesPart(out)
        /\ h > 0 => \E k \in 1..n :
                      /\ n >= k + 2
                      /\ AllDigits(SubSeq(out, 1, k))
                      /\ out[1] # "0"
                      /\ NumberOf(SubSeq(out, 1, k)) = h
                      /\ out[k + 1] = "h" /\ out[k + 2] = " "
                      /\ MinutesPart(SubSeq(out, k + 3, n))
        /\ s = 5400 => out = <<"1", "h", " ", "3", "0", "m", "i", "n">>

C26_Witness ==
  /\ cardCall.rendered /\ cardCall.fn = "formatDuration"
  /\ cardCall.arg = JsNumber(5400)
  /\ cardOut = JsString(<<"1", "h", " ", "3", "0", "m", "i", "n">>)

\* C27: for a non-negative integer number of metres m, formatDistance(m) is
\* "<m> m" when m < 1000, and when m >= 1000 the kilometres nearest to m with
\* exactly one decimal, followed by " km"; 500 gives "500 m" and 1500 gives
\* "1.5 km".
C27_DistanceFormat ==
  (cardCall.rendered /\ cardCall.fn = "formatDistance"
   /\ cardCall.arg.t = "number")
  => LET m == cardCall.arg.n
         out == cardOut.s
         n == Len(out)
     IN /\ cardOut.t = "string"
        /\ m < 1000
           => /\ n >= 3
              /\ SubSeq(out, n - 1, n) = <<" ", "m">>
              /\ AllDigits(SubSeq(out, 1, n - 2))
              /\ (n = 3 \/ out[1] # "0")
              /\ NumberOf(SubSeq(out, 1, n - 2)) = m
        /\ m >= 1000
           => /\ n >= 6
              /\ SubSeq(out, n - 2, n) = <<" ", "k", "m">>
              /\ IsDigit(out[n - 3])
              /\ out[n - 4] = "."
              /\ AllDigits(SubSeq(out, 1, n - 5))
              /\ out[1] # "0"
              /\ LET tenths == 10 * NumberOf(SubSeq(out, 1, n - 5))
                               + DigitValue(out[n - 3])
                 IN 100 * tenths - m \in (0 - 50)..50
        /\ m = 500 => out = <<"5", "0", "0", " ", "m">>
        /\ m = 1500 => out = <<"1", ".", "5", " ", "k", "m">>

C27_Witness ==
  /\ cardCall.rendered /\ cardCall.fn = "formatDistance"
  /\ cardCall.arg = JsNumber(1500)
  /\ cardOut = JsString(<<"1", ".", "5", " ", "k", "m">>)

\* C31: in the timestamps variant, pointing the radar source at a timestamp
\* ends in the same state with setTiles as with the remove-and-recreate
\* fallback: one radar layer, at the place it had, visible, its source on the
\* selected timestamp's tiles, and the route source and layer as they were.
CountIn(lay, id) == Cardinality({i \in 1..Len(lay) : lay[i] = id})

C31_RetargetSameFinalState ==
  [][(/\ variant = "timestamps"
      /\ mapStatus = "loaded" /\ mapStatus' = "loaded"
      /\ isRadarActive' /\ Len(radarTimestamps') > 0 /\ selectedTimestamp' # 0
      /\ \/ isRadarActive' # isRadarActive
         \/ selectedTimestamp' # selectedTimestamp
         \/ radarTimestamps' # radarTimestamps)
     => /\ radarSource' = <<selectedTimestamp'>>
        /\ radarVisible'
        /\ CountIn(layers', RadarLayer) = 1
        /\ layers' = layers
        /\ CountIn(layers', RouteLayer) = 1
        /\ routeSource' = routeSource]_vars

C31_Witness ==
  /\ variant = "timestamps" /\ ~hasSetTiles
  /\ mapStatus = "loaded" /\ isRadarActive /\ radarVisible
  /\ selectedTimestamp # 0 /\ radarSource = <<selectedTimestamp>>
  /\ CountIn(layers, RadarLayer) = 1
  /\ routeGeojson # NoRoute /\ routeSource = <<routeGeojson>>

\* C32: while a route fetch is in flight (isLoading), the route geometry and
\* the route summary are both null.
C32_NoRouteWhileLoading ==
  isLoading => (routeGeojson = NoRoute /\ routeSummary = NoSummary)

C32_Witness ==
  /\ phase = "mounted" /\ isLoading /\ fetchSeq = 2
  /\ \E req \in pending : req.id = 2
  /\ routeGeojson = NoRoute /\ routeSummary = NoSummary

\* C33: a fetch that sets isLoading is followed, once its request completes,
\* by isLoading being false, whatever the response; with no request
\* outstanding the mounted App is never loading.
C33_LoadingEnds ==
  /\ []((phase = "mounted" /\ pending = {}) => ~isLoading)
  /\ (isLoading ~> (~isLoading \/ phase = "unmounted"))

C33_Witness ==
  /\ phase = "mounted" /\ ~isLoading /\ pending = {} /\ fetchSeq > 0
  /\ error # NoError /\ routeGeojson = NoRoute

\* C34: in every reachable state of the App, an end point is set only if a
\* start point is set.
C34_EndImpliesStart == endPoint # NULL => startPoint # NULL

C34_Witness ==
  /\ phase = "mounted" /\ showInputs /\ settingPointMode = "start"
  /\ startPoint # NULL /\ endPoint # NULL /\ startPoint # endPoint

\* C35: in every reachable state of the App, a stored route geometry comes
\* with both its points: a response arriving after the points were cleared
\* leaves no route without them.
C35_RouteImpliesPoints ==
  routeGeojson # NoRoute => (startPoint # NULL /\ endPoint # NULL)

\* C36: a map click received while the panel is hidden or while no point is
\* being set leaves start point, end point, mode, route geometry, route
\* summary and error unchanged.
C36_IdleClickChangesNothing ==
  [][\A p \in Points :
       (MapClick(p) /\ (~showInputs \/ settingPointMode = NULL))
       => UNCHANGED <<startPoint, endPoint, settingPointMode, routeGeojson,
                      routeSummary, error>>]_vars

C36_Witness ==
  /\ phase = "mounted" /\ clickListeners > 0 /\ mapStatus = "loaded"
  /\ ~showInputs /\ settingPointMode = "start"
  /\ ENABLED MapClick("A")

\* C37: in the timestamps variant the radar-active flag is true only when no
\* radar error is set and at least one timestamp is held; a toggle attempted
\* with an error set or with no timestamps leaves the flag unchanged.
C37_ActiveOnlyWithData ==
  /\ []((variant = "timestamps" /\ isRadarActive)
        => (radarError = NULL /\ Len(radarTimestamps) > 0))
  /\ [][(/\ variant = "timestamps"
         /\ (radarError # NULL \/ Len(radarTimestamps) = 0)
         /\ RadarToggle)
        => isRadarActive' = isRadarActive]_vars

C37_Witness ==
  /\ variant = "timestamps" /\ phase = "mounted" /\ mapStatus = "loaded"
  /\ radarError = ErrRadarLoad /\ radarTimestamps = <<>>
  /\ ~isRadarActive /\ ENABLED RadarToggle

\* C38: whenever the ready flag is true and the map reference is held, so
\* that a route, marker or radar reconciliation may run, the route source and
\* route layer exist, and in the timestamps variant, which creates them at
\* load, the radar source and layer too.
C38_ReadyImpliesCreated ==
  EffectGate(mapLoaded, mapRef)
  => /\ routeSource # <<>> /\ CountIn(layers, RouteLayer) = 1
     /\ variant = "timestamps"
        => (radarSource # <<>> /\ CountIn(layers, RadarLayer) = 1)

C38_Witness ==
  /\ variant = "timestamps" /\ EffectGate(mapLoaded, mapRef)
  /\ lastFit = "requested" /\ routeSource = <<routeGeojson>>
  /\ radarSource # <<>> /\ CountIn(layers, RadarLayer) = 1
  /\ CountIn(layers, RouteLayer) = 1

\* C39: at most one radar polling timer runs at any time, and the running
\* timer is the one radarIntervalRef holds.
C39_AtMostOneTimer == timers <= 1 /\ (timers = 1 => radarIntervalRef = "active")

C39_Witness ==
  /\ variant = "interval" /\ mapStatus = "loaded" /\ isRadarActive
  /\ radarSeq >= 2 /\ radarPending = 0 /\ selectedTimestamp = 2
  /\ timers = 1

====
